---- MODULE Spec2Model ----
(***************************************************************************)
(* Live log distribution of NixPyFram: the ring buffer log_queue, the      *)
(* registry active_connections, the per-viewer handler websocket_logs and  *)
(* the per-emission task broadcast_log (src/app/api/logs.py), driven by    *)
(* the loguru sink sync_websocket_handler (src/app/core/logger.py).        *)
(*                                                                         *)
(* Everything runs on one asyncio event loop: code between two awaits is   *)
(* one atomic step, and at an await any other ready task may run.          *)
(* A record is identified by the number of the task that publishes it.     *)
(*                                                                         *)
(* Second part: the log directory and the two requests that read it,       *)
(* get_log_files_list and get_log_content (src/app/api/logs.py) over       *)
(* get_log_files (src/app/core/logger.py).  The directory is changed by    *)
(* the writer of the log files (writes, rotation with compression,         *)
(* retention), which runs outside the event loop: it may act between any   *)
(* two file-system calls of a request.                                     *)
(***************************************************************************)
EXTENDS Integers, Sequences, FiniteSets, TLC

\* ------------------------------------------------------------- bounds
\* Number of records published while two viewers are connected; with a
\* single viewer, one more.
MaxPublish == 2
\* deque(maxlen=1000) of logs.py:20, scaled down so that overflow is reached.
QueueMaxLen == 2
\* Number of viewers that stop reading.
MaxStall == 1
\* Number of handler tasks that get cancelled.
MaxCancel == 1

\* Number of texts a viewer sends.
MaxText == 2

\* Number of lines of a log file.
MaxLines == 3
\* Largest page asked for.
MaxPage == 3
\* Query(le=1000) of logs.py:76, scaled down.
MaxPageSize == 2
\* Number of changes made to the log directory.
MaxTime == 5

\* The viewer connections the environment opens.
Sessions == {1, 2}
\* The broadcast tasks that run: the application's log lines and the errors
\* the handlers log (logs.py:165).
Tasks == 1..(MaxPublish + 1)
\* The loads the system is run under: the viewers that connect, the number
\* of broadcast tasks that run and the number of texts a viewer sends.  Two
\* viewers that only listen, or one viewer that also sends texts.
Loads == {[viewers |-> Sessions, lines |-> MaxPublish, texts |-> 0],
          [viewers |-> {1}, lines |-> MaxPublish + 1, texts |-> MaxText]}

VARIABLES
    load,               \* the load of this run, one of Loads
    log_queue,          \* logs.py:20   deque of records, oldest first
    active_connections, \* logs.py:22   list of registered sessions
    emitted,            \* number of broadcast tasks created (create_task)
    started,            \* number of tasks that ran log_queue.append: the
                        \* deque's mutation counter
    bpc,                \* broadcast_log task: where it is suspended
    snap,               \* broadcast_log: active_connections.copy()
    bidx,               \* broadcast_log: position in the copy
    hpc,                \* websocket_logs task: where it is suspended
    itstate,            \* deque iterator of line 149: mutation counter seen
    itpos,              \* deque iterator: items already taken
    client_state,       \* WebSocket.client_state
    link,               \* transport: "none", "up", "down"
    stalled,            \* the peer stopped reading: sends do not complete
    sent,               \* per session, the records handed to its channel
    replay0,            \* ring contents when the session's replay began
    rp,                 \* outcome of the session's replay
    replayEnd,          \* number of records published when the replay was left
    inbox,              \* per session, the texts receive_text returned
    echoed,             \* per session, the number of send_text calls
    platform,           \* what st_ctime means on the host: "posix", "windows"
    now,                \* clock of the log directory, in half seconds
    dir,                \* the files of the log directory, by name
    req,                \* the request in progress and where it stands
    resp,               \* the response of the last request
    quiet,              \* the directory has not changed since the call
    gone,               \* the named file was taken away during the call
    _config,            \* config.py:20  the merged configuration get reads
    _json_config,       \* config.py:21  what config.json holds, and set's writes
    _env_file_config,   \* config.py:22  what .env holds, and set's writes
    _env_vars_config,   \* config.py:23  what os.environ holds, and set's writes
    config_override,    \* config.py:215 CONFIG_OVERRIDE of config.json
    config_json,        \* the file config.json, by key
    dot_env,            \* the file .env, by variable name
    environ,            \* os.environ, by variable name
    written,            \* by key, the value of the last set since the load
    call                \* the last call of the configuration and its result

ringVars == <<log_queue, started>>
taskVars == <<bpc, snap, bidx>>
iterVars == <<itstate, itpos, replay0, rp, replayEnd>>
peerVars == <<client_state, link, stalled>>
textVars == <<inbox, echoed>>
fileVars == <<platform, now, dir, req, resp, quiet, gone>>
cfgVars == <<_config, _json_config, _env_file_config, _env_vars_config,
             config_override, config_json, dot_env, environ, written, call>>
liveVars == <<load, log_queue, active_connections, emitted, started, bpc,
              snap, bidx, hpc, itstate, itpos, client_state, link, stalled,
              sent, replay0, rp, replayEnd, inbox, echoed>>

vars == <<load, log_queue, active_connections, emitted, started, bpc,
          snap, bidx, hpc, itstate, itpos, client_state, link, stalled, sent,
          replay0, rp, replayEnd, inbox, echoed,
          platform, now, dir, req, resp, quiet, gone,
          _config, _json_config, _env_file_config, _env_vars_config,
          config_override, config_json, dot_env, environ, written, call>>

\* ------------------------------------------------------------ helpers
Range(q) == {q[i] : i \in 1..Len(q)}

Min(a, b) == IF a < b THEN a ELSE b

\* Faulty variant of DequeAppend: a full deque drops the new record.
DequeAppendDropNewest(q, x) ==
    IF Len(q) >= QueueMaxLen THEN q ELSE Append(q, x)

\* Faulty variant of DequeAppend: the record is stored twice.
DequeAppendTwice(q, x) ==
    IF Len(q) >= QueueMaxLen THEN Append(Tail(q), x) ELSE Append(Append(q, x), x)

\* deque(maxlen=N).append(x): appends on the right, discarding from the left
\* once the deque is full.
DequeAppend(q, x) ==
    IF Len(q) >= QueueMaxLen THEN Append(Tail(q), x) ELSE Append(q, x)

\* Faulty variant of ListRemove: the sessions behind x go with it.
ListRemoveFrom(q, x) ==
    IF \E i \in 1..Len(q) : q[i] = x
    THEN SubSeq(q, 1, (CHOOSE i \in 1..Len(q) :
                          q[i] = x /\ \A j \in 1..(i - 1) : q[j] # x) - 1)
    ELSE q

\* Faulty variant of ListAppend: the element is appended twice.
ListAppendTwice(q, x) == Append(Append(q, x), x)

\* list.append(x).
ListAppend(q, x) == Append(q, x)

\* list.remove(x): removes the first occurrence.
RECURSIVE ListRemove(_, _)
ListRemove(q, x) ==
    IF q = <<>> THEN <<>>
    ELSE IF Head(q) = x THEN Tail(q)
    ELSE <<Head(q)>> \o ListRemove(Tail(q), x)

\* Faulty variant of AwaitPoints: an await between the registration and the replay.
AwaitPointsWithRegistered ==
    {"accept", "registered", "replay", "receive", "echo"}

\* The places where websocket_logs is suspended in an await: accept (144),
\* send_json (151), receive_text (157), send_text (159).
AwaitPoints == {"accept", "replay", "receive", "echo"}

Terminated == {"closed", "failed", "cancelled"}

\* A request on the log directory is being handled.  get_log_content and
\* get_log_files_list (logs.py:62-138) are coroutines without an await: from
\* the call to the response they are never suspended.
InFlight == req.pc \notin {"idle", "done"}

\* Another task runs only while every handler is suspended or over.
AllSuspended ==
    /\ \A s \in Sessions : hpc[s] \in AwaitPoints \cup Terminated \cup {"idle"}
    /\ ~InFlight

\* ---------------------------------------------------------------- Init
LiveInit ==
    /\ load \in Loads
    /\ log_queue = <<>>
    /\ active_connections = <<>>
    /\ emitted = 0
    /\ started = 0
    /\ bpc = [p \in Tasks |-> "none"]
    /\ snap = [p \in Tasks |-> <<>>]
    /\ bidx = [p \in Tasks |-> 0]
    /\ hpc = [s \in Sessions |-> "idle"]
    /\ itstate = [s \in Sessions |-> 0]
    /\ itpos = [s \in Sessions |-> 0]
    /\ client_state = [s \in Sessions |-> "CONNECTING"]
    /\ link = [s \in Sessions |-> "none"]
    /\ stalled = [s \in Sessions |-> FALSE]
    /\ sent = [s \in Sessions |-> <<>>]
    /\ replay0 = [s \in Sessions |-> <<>>]
    /\ rp = [s \in Sessions |-> "none"]
    /\ replayEnd = [s \in Sessions |-> 0]
    /\ inbox = [s \in Sessions |-> <<>>]
    /\ echoed = [s \in Sessions |-> 0]

\* ------------------------------------------------- broadcast_log task
\* Lines 181-183: the first connection of the copy, from position i on, whose
\* client_state is CONNECTED; the others are passed over without a send and
\* without being removed.  Len(sn) + 1 when there is none.
RECURSIVE NextConnected(_, _)
NextConnected(sn, i) ==
    IF i > Len(sn) THEN i
    ELSE IF client_state[sn[i]] = "CONNECTED" THEN i
    ELSE NextConnected(sn, i + 1)

\* Lines 181-187 run from position i of the copy to the next await: the await
\* of send_json (the record has been handed to the transport), the await of
\* close() after a send that raised at once, or the end of the loop.
LoopFrom(sn, i) ==
    LET j == NextConnected(sn, i) IN
    IF j > Len(sn) THEN [pc |-> "done", idx |-> j, to |-> 0]
    ELSE IF link[sn[j]] = "up"
         THEN [pc |-> "send", idx |-> j, to |-> sn[j]]
         ELSE [pc |-> "close", idx |-> j, to |-> 0]

\* The task p continues its loop at position i of its copy sn.
Continue(p, sn, i) ==
    LET r == LoopFrom(sn, i) IN
    /\ bpc' = [bpc EXCEPT ![p] = r.pc]
    /\ bidx' = [bidx EXCEPT ![p] = r.idx]
    /\ sent' = IF r.to # 0
               THEN [sent EXCEPT ![r.to] = Append(@, <<"live", p>>)]
               ELSE sent

\* logger.py:65-68: a log line of level INFO or above reaches the sink, which
\* creates a task running websocket_handler -> broadcast_log.
Emit ==
    /\ AllSuspended
    /\ emitted < load.lines
    /\ emitted' = emitted + 1
    /\ bpc' = [bpc EXCEPT ![emitted + 1] = "ready"]
    /\ UNCHANGED <<cfgVars, fileVars, textVars, load, ringVars, active_connections, snap, bidx, hpc, iterVars,
                   peerVars, sent>>

\* logs.py:178-184: the task's first run.  The event loop starts tasks in the
\* order of their creation.
BroadcastStart(p) ==
    /\ AllSuspended
    /\ bpc[p] = "ready"
    /\ p = started + 1
    /\ started' = p
    /\ log_queue' = DequeAppend(log_queue, p)
    /\ snap' = [snap EXCEPT ![p] = active_connections]
    /\ Continue(p, active_connections, 1)
    /\ UNCHANGED <<cfgVars, fileVars, textVars, load, active_connections, emitted, hpc, iterVars, peerVars>>

\* logs.py:184: send_json returns and the loop goes on.  A peer that does not
\* read keeps the send pending; no timeout bounds the await.
BroadcastSendDone(p) ==
    /\ AllSuspended
    /\ bpc[p] = "send"
    /\ LET c == snap[p][bidx[p]] IN
       \/ link[c] = "up" /\ ~stalled[c]
       \/ link[c] = "down"
    /\ Continue(p, snap[p], bidx[p] + 1)
    /\ UNCHANGED <<cfgVars, fileVars, textVars, load, ringVars, active_connections, emitted, snap, hpc,
                   iterVars, peerVars>>

\* logs.py:184-187: the connection went down while the send was pending;
\* send_json raises, and the task calls close() and awaits it.
BroadcastSendRaise(p) ==
    /\ AllSuspended
    /\ bpc[p] = "send"
    /\ link[snap[p][bidx[p]]] = "down"
    /\ bpc' = [bpc EXCEPT ![p] = "close"]
    /\ UNCHANGED <<cfgVars, fileVars, textVars, load, ringVars, active_connections, emitted, snap, bidx, hpc,
                   iterVars, peerVars, sent>>

\* logs.py:190: list.remove raises ValueError when the element is absent.
RemoveRaises(c) == c \notin Range(active_connections)

\* logs.py:187-190: close() is over (whatever it raised is swallowed), the
\* connection is removed from the registry and the loop goes on; a ValueError
\* of the removal leaves broadcast_log.
BroadcastCloseDone(p) ==
    /\ AllSuspended
    /\ bpc[p] = "close"
    /\ LET c == snap[p][bidx[p]] IN
       IF RemoveRaises(c)
       THEN /\ bpc' = [bpc EXCEPT ![p] = "raised"]
            /\ UNCHANGED <<active_connections, bidx, sent>>
       ELSE /\ active_connections' = ListRemove(active_connections, c)
            /\ Continue(p, snap[p], bidx[p] + 1)
    /\ UNCHANGED <<cfgVars, fileVars, textVars, load, ringVars, emitted, snap, hpc, iterVars, peerVars>>

BroadcastStep(p) ==
    \/ BroadcastStart(p)
    \/ BroadcastSendDone(p)
    \/ BroadcastSendRaise(p)
    \/ BroadcastCloseDone(p)

\* ------------------------------------------------ websocket_logs task
\* A viewer opens a connection: the handler task starts and awaits accept().
Connect(s) ==
    /\ AllSuspended
    /\ s \in load.viewers
    /\ hpc[s] = "idle"
    /\ hpc' = [hpc EXCEPT ![s] = "accept"]
    /\ link' = [link EXCEPT ![s] = "up"]
    /\ UNCHANGED <<cfgVars, fileVars, textVars, load, ringVars, active_connections, emitted, taskVars, iterVars,
                   client_state, stalled, sent>>

\* logs.py:144-145: accept() returns and the session is appended to the
\* registry; accept() raising (the peer left during the handshake) ends the
\* handler before the try block.
HandlerAccept(s) ==
    /\ AllSuspended
    /\ hpc[s] = "accept"
    /\ IF link[s] = "up"
       THEN /\ client_state' = [client_state EXCEPT ![s] = "CONNECTED"]
            /\ active_connections' = ListAppend(active_connections, s)
            /\ hpc' = [hpc EXCEPT ![s] = "registered"]
       ELSE /\ hpc' = [hpc EXCEPT ![s] = "failed"]
            /\ UNCHANGED <<client_state, active_connections>>
    /\ UNCHANGED <<cfgVars, fileVars, textVars, load, ringVars, emitted, taskVars, iterVars, link, stalled,
                   sent>>

\* logs.py:162-163, 166-167: the handler removes itself when it is there.
HandlerRemove(s) ==
    IF s \in Range(active_connections)
    THEN ListRemove(active_connections, s)
    ELSE active_connections

\* logs.py:160-163: WebSocketDisconnect ends the handler; the server drops
\* the connection of a handler that returned.
EndDisconnected(s) ==
    /\ hpc' = [hpc EXCEPT ![s] = "closed"]
    /\ active_connections' = HandlerRemove(s)
    /\ link' = [link EXCEPT ![s] = "down"]
    /\ UNCHANGED <<emitted, bpc>>

\* logs.py:164-167: any other Exception is logged with logger.error, which
\* reaches the sink of logger.py:71 and creates a broadcast task, and ends the
\* handler.
EndError(s) ==
    /\ hpc' = [hpc EXCEPT ![s] = "closed"]
    /\ active_connections' = HandlerRemove(s)
    /\ link' = [link EXCEPT ![s] = "down"]
    /\ IF emitted < load.lines
       THEN /\ emitted' = emitted + 1
            /\ bpc' = [bpc EXCEPT ![emitted + 1] = "ready"]
       ELSE UNCHANGED <<emitted, bpc>>

\* Faulty variant of IterNext: the iteration ends before the newest record.
IterNextStopsEarly(st, k) ==
    IF started # st THEN "mutated"
    ELSE IF k >= Len(log_queue) - 1 THEN "end"
    ELSE "item"

\* logs.py:149: next() on the deque iterator.  It raises RuntimeError once the
\* deque was mutated after the iterator was made, and ends after the last
\* item.
IterNext(st, k) ==
    IF started # st THEN "mutated"
    ELSE IF k >= Len(log_queue) THEN "end"
    ELSE "item"

\* logs.py:149-157 from the iterator (st, k) to the next await: the await of
\* send_json for the next record, or of receive_text once the loop is left
\* (at its end, or by the break after a send that raised); a RuntimeError of
\* the iterator ends the handler.
Replay(s, st, k) ==
    LET n == IterNext(st, k) IN
    /\ itstate' = [itstate EXCEPT ![s] = st]
    /\ IF n = "mutated"
       THEN /\ EndError(s)
            /\ rp' = [rp EXCEPT ![s] = "mutated"]
            /\ replayEnd' = [replayEnd EXCEPT ![s] = started]
            /\ UNCHANGED <<itpos, sent>>
       ELSE IF n = "end"
       THEN /\ hpc' = [hpc EXCEPT ![s] = "receive"]
            /\ itpos' = [itpos EXCEPT ![s] = k]
            /\ rp' = [rp EXCEPT ![s] = "complete"]
            /\ replayEnd' = [replayEnd EXCEPT ![s] = started]
            /\ UNCHANGED <<sent, active_connections, link, emitted, bpc>>
       ELSE IF link[s] = "up"
       THEN /\ hpc' = [hpc EXCEPT ![s] = "replay"]
            /\ itpos' = [itpos EXCEPT ![s] = k + 1]
            /\ sent' = [sent EXCEPT
                          ![s] = Append(@, <<"replay", log_queue[k + 1]>>)]
            /\ rp' = [rp EXCEPT ![s] = "running"]
            /\ UNCHANGED <<replayEnd, active_connections, link, emitted, bpc>>
       ELSE /\ hpc' = [hpc EXCEPT ![s] = "receive"]
            /\ itpos' = [itpos EXCEPT ![s] = k + 1]
            /\ rp' = [rp EXCEPT ![s] = "broken"]
            /\ replayEnd' = [replayEnd EXCEPT ![s] = started]
            /\ UNCHANGED <<sent, active_connections, link, emitted, bpc>>

\* logs.py:147-151: the replay begins, in the same run as the registration;
\* the iterator is made over log_queue itself.
HandlerReplayBegin(s) ==
    /\ hpc[s] = "registered"
    /\ replay0' = [replay0 EXCEPT ![s] = log_queue]
    /\ Replay(s, started, 0)
    /\ UNCHANGED <<cfgVars, fileVars, textVars, load, ringVars, snap, bidx, client_state, stalled>>

\* logs.py:149-151: send_json returns and the loop takes the next record.
HandlerReplaySent(s) ==
    /\ AllSuspended
    /\ hpc[s] = "replay"
    /\ \/ link[s] = "up" /\ ~stalled[s]
       \/ link[s] = "down"
    /\ Replay(s, itstate[s], itpos[s])
    /\ UNCHANGED <<cfgVars, fileVars, textVars, load, ringVars, snap, bidx, client_state, stalled, replay0>>

\* logs.py:151-157: the pending send_json raises; the loop is left by the
\* break and the handler awaits receive_text.
HandlerReplayRaise(s) ==
    /\ AllSuspended
    /\ hpc[s] = "replay"
    /\ link[s] = "down"
    /\ hpc' = [hpc EXCEPT ![s] = "receive"]
    /\ rp' = [rp EXCEPT ![s] = "broken"]
    /\ replayEnd' = [replayEnd EXCEPT ![s] = started]
    /\ UNCHANGED <<cfgVars, fileVars, textVars, load, ringVars, active_connections, emitted, taskVars, itstate,
                   itpos, replay0, peerVars, sent>>

\* Faulty variant of IsKeepAlive: every text is answered.
IsAnyText(data) == data \in {"heartbeat", "other"}

\* logs.py:158: the test for the sentinel.
IsKeepAlive(data) == data = "heartbeat"

\* logs.py:157-159: receive_text returns a text.  The sentinel is answered
\* with send_text, which the handler awaits; any other text is dropped.
HandlerReceiveText(s, data) ==
    /\ AllSuspended
    /\ hpc[s] = "receive"
    /\ link[s] = "up"
    /\ Len(inbox[s]) < load.texts
    /\ inbox' = [inbox EXCEPT ![s] = Append(@, data)]
    /\ IF IsKeepAlive(data)
       THEN /\ hpc' = [hpc EXCEPT ![s] = "echo"]
            /\ echoed' = [echoed EXCEPT ![s] = @ + 1]
       ELSE UNCHANGED <<hpc, echoed>>
    /\ UNCHANGED <<cfgVars, fileVars, load, ringVars, active_connections, emitted, taskVars, iterVars,
                   peerVars, sent>>

\* logs.py:157, 160-163: receive_text raises WebSocketDisconnect once the
\* connection is down; client_state becomes DISCONNECTED.
HandlerReceiveDisconnect(s) ==
    /\ AllSuspended
    /\ hpc[s] = "receive"
    /\ link[s] = "down"
    /\ client_state' = [client_state EXCEPT ![s] = "DISCONNECTED"]
    /\ EndDisconnected(s)
    /\ UNCHANGED <<cfgVars, fileVars, textVars, load, ringVars, snap, bidx, iterVars, stalled, sent>>

\* logs.py:159, 156: send_text returns and the handler awaits receive_text.
HandlerEchoSent(s) ==
    /\ AllSuspended
    /\ hpc[s] = "echo"
    /\ \/ link[s] = "up" /\ ~stalled[s]
       \/ link[s] = "down"
    /\ hpc' = [hpc EXCEPT ![s] = "receive"]
    /\ UNCHANGED <<cfgVars, fileVars, textVars, load, ringVars, active_connections, emitted, taskVars, iterVars,
                   peerVars, sent>>

\* logs.py:159-167: the pending send_text raises, WebSocketDisconnect or
\* another exception depending on the transport; either clause removes the
\* session.
HandlerEchoRaise(s) ==
    /\ AllSuspended
    /\ hpc[s] = "echo"
    /\ link[s] = "down"
    /\ \/ EndDisconnected(s)
       \/ EndError(s)
    /\ UNCHANGED <<cfgVars, fileVars, textVars, load, ringVars, snap, bidx, iterVars, client_state,
                   stalled, sent>>

\* The handler task is cancelled while suspended.  CancelledError is a
\* BaseException: neither except clause of lines 160-167 catches it, so
\* nothing is removed.  The server drops the connection of a task that ended.
Cancel(s) ==
    /\ AllSuspended
    /\ hpc[s] \in AwaitPoints
    /\ Cardinality({x \in Sessions : hpc[x] = "cancelled"}) < MaxCancel
    /\ hpc' = [hpc EXCEPT ![s] = "cancelled"]
    /\ link' = [link EXCEPT ![s] = "down"]
    /\ rp' = [rp EXCEPT ![s] = IF @ = "running" THEN "cancelled" ELSE @]
    /\ replayEnd' = [replayEnd EXCEPT
                       ![s] = IF rp[s] = "running" THEN started ELSE @]
    /\ UNCHANGED <<cfgVars, fileVars, textVars, load, ringVars, active_connections, emitted, taskVars, itstate,
                   itpos, replay0, client_state, stalled, sent>>

\* The steps the handler takes by itself, once the awaited call is over.
HandlerRun(s) ==
    \/ HandlerAccept(s)
    \/ HandlerReplayBegin(s)
    \/ HandlerReplaySent(s)
    \/ HandlerReplayRaise(s)
    \/ HandlerReceiveDisconnect(s)
    \/ HandlerEchoSent(s)
    \/ HandlerEchoRaise(s)

\* The handler's steps, those that take a text of the peer included.
HandlerStep(s) ==
    \/ HandlerRun(s)
    \/ \E data \in {"heartbeat", "other"} : HandlerReceiveText(s, data)

\* --------------------------------------------------------- the viewer
\* The peer closes or loses its connection.
PeerDisconnect(s) ==
    /\ AllSuspended
    /\ link[s] = "up"
    /\ link' = [link EXCEPT ![s] = "down"]
    /\ UNCHANGED <<cfgVars, fileVars, textVars, load, ringVars, active_connections, emitted, taskVars, hpc,
                   iterVars, client_state, stalled, sent>>

\* The peer stops reading: from now on a send to it stays pending.
PeerStall(s) ==
    /\ AllSuspended
    /\ link[s] = "up"
    /\ Cardinality({x \in Sessions : stalled[x]}) < MaxStall
    /\ ~stalled[s]
    /\ stalled' = [stalled EXCEPT ![s] = TRUE]
    /\ UNCHANGED <<cfgVars, fileVars, textVars, load, ringVars, active_connections, emitted, taskVars, hpc,
                   iterVars, client_state, link, sent>>

\* ---------------------------------------------------- the log directory
\* The names a file of the log directory may have, and a request may give:
\* the file being written, the archive of the rotated file, and a file that
\* is no log file.
Names == {"app.log", "old.log.zip", "notes.txt"}

\* logger.py:134 glob("*.log") and logger.py:136 glob("*.log.zip").
IsLog(f) == f \in {"app.log"}

IsZip(f) == f \in {"old.log.zip"}

IsSegment(f) == IsLog(f) \/ IsZip(f)

\* A line of brackets nested deeper than the interpreter's recursion limit.
DeepLine == "[[[[...]]]]\n"

\* The lines a log file is made of: a line that is JSON, a line that is not,
\* and a line that is JSON nested too deep to be parsed.
LineValues == {"{\"a\":1}\n", " text \n", DeepLine}

\* A line of what the bytes of an archive decode to, when they decode.
ZipBytes == "PK"

NoFile == [present |-> FALSE, lines |-> <<>>, created |-> 0, changed |-> 0]

Present(f) == f \in Names /\ dir[f].present

\* st_size, in units of one line: a plain file has the size of its lines, an
\* archive is never empty.
StSize(f) == IF IsZip(f) THEN Len(dir[f].lines) + 1 ELSE Len(dir[f].lines)

\* st_ctime (logger.py:135, 137): the time of the last change of the file on
\* POSIX systems, of its creation on Windows.
StCtime(f) ==
    IF platform = "posix" THEN dir[f].changed ELSE dir[f].created

\* logs.py:33-37 with the size given in bytes: the value in hundredths of
\* the unit, rounded, and the unit.
RECURSIVE FormatScaled(_, _, _)
FormatScaled(size, scale, k) ==
    IF k = 5 \/ size < 1024 * scale
    THEN [hundredths |-> (200 * size + scale) \div (2 * scale),
          unit |-> <<"B", "KB", "MB", "GB", "TB">>[k]]
    ELSE FormatScaled(size, 1024 * scale, k + 1)

format_file_size(size_in_bytes) == FormatScaled(size_in_bytes, 1, 1)

\* logs.py:67: strftime("%Y-%m-%d %H:%M:%S") drops the fraction of a second.
FormatTime(t) == t \div 2

\* logger.py:140: sorted(..., key=ctime, reverse=True) of the files S with
\* the times key.
RECURSIVE SortedDesc(_, _)
SortedDesc(S, key) ==
    IF S = {} THEN <<>>
    ELSE LET m == CHOOSE x \in S : \A y \in S : key[y] <= key[x]
         IN  <<[name |-> m, ctime |-> key[m]]>> \o SortedDesc(S \ {m}, key)

\* logs.py:120: json.loads raises RecursionError, which is no
\* JSONDecodeError, on a line nested too deep.
ParseRaises(line) == line = DeepLine

\* logs.py:118-124 on the lines of this model: json.loads then json.dumps
\* for a line that is JSON, strip() for a line that is not.
Render(line) ==
    IF line = "{\"a\":1}\n" THEN "{\"a\": 1}"
    ELSE IF line = " text \n" THEN "text"
    ELSE line

\* logs.py:102-138: the page of all_logs; an exception other than
\* JSONDecodeError in the loop of lines 117-124 becomes a 500.
Paginate(all_logs, page, page_size) ==
    LET total_logs  == Len(all_logs)
        total_pages == (total_logs + page_size - 1) \div page_size
        clamped     == IF page > total_pages THEN total_pages ELSE page
        current     == IF clamped < 1 THEN 1 ELSE clamped
        start_idx   == (current - 1) * page_size
        end_idx     == Min(start_idx + page_size, total_logs)
    IN  IF \E i \in (start_idx + 1)..end_idx : ParseRaises(all_logs[i])
        THEN [op |-> "content", status |-> 500]
        ELSE
        [op |-> "content", status |-> 200,
         logs |-> [i \in 1..(end_idx - start_idx) |->
                      Render(all_logs[start_idx + i])],
         total |-> total_logs,
         total_pages |-> total_pages,
         current_page |-> current,
         page_size |-> page_size]

\* Faulty variant of ReadLines: a file without lines cannot be read.
ReadLinesNotEmpty(f) ==
    IF IsZip(f) \/ dir[f].lines = <<>> THEN {"UnicodeDecodeError"}
    ELSE {dir[f].lines}

\* What open(log_file, 'r', encoding='utf-8').readlines() gives (logs.py:
\* 99-100): the lines of a plain file; for an archive, whose bytes are read
\* as text, a UnicodeDecodeError or whatever the bytes decode to.
ReadLines(f) ==
    IF IsZip(f) THEN {"UnicodeDecodeError", <<ZipBytes>>}
    ELSE {dir[f].lines}

NoRequest ==
    [op |-> "none", pc |-> "idle", filename |-> "", page |-> 0,
     page_size |-> 0, names |-> {}, log_files |-> <<>>]

NoResponse == [op |-> "none", status |-> 0]

FilesIdle ==
    /\ platform = "posix"
    /\ now = 0
    /\ dir = [f \in Names |-> NoFile]
    /\ req = NoRequest
    /\ resp = NoResponse
    /\ quiet = TRUE
    /\ gone = FALSE

\* ------------------------------------------------------ the configuration
\* The keys the application sets and reads.
ConfigKeys == {"app.id", "app.name"}

\* The id lifespan computes for the host (init.py:27-28).
AppId == "00ab"

\* The values given to a key: a text that is kept as it is, and a text that
\* _convert_value takes for a boolean when it is read from the environment.
ConfigValues == {AppId, "1"}

\* A key the dictionary does not hold: dict.get gives None.
Missing == "<missing>"

\* The variables of the environment and of .env the keys are written to.
EnvNames == {"APP_ID", "APP_NAME"}

\* config.py:104-106: the dots become underscores, in upper case.
ConvertToEnvKey(key) == IF key = "app.id" THEN "APP_ID" ELSE "APP_NAME"

\* config.py:26-54: the texts of a boolean become the boolean (written here
\* as its str), the other texts are kept.
ConvertValue(value) == IF value = "1" THEN "True" ELSE value

EmptyDict == [k \in ConfigKeys |-> Missing]

EmptyEnv == [n \in EnvNames |-> Missing]

\* config.py:108-117: the dictionary that holds value under key only.
CreateNestedDict(key, value) ==
    [k \in ConfigKeys |-> IF k = key THEN value ELSE Missing]

\* config.py:199-207: the keys of override win over those of base.
MergeConfigs(base, override) ==
    [k \in ConfigKeys |->
        IF override[k] # Missing THEN override[k] ELSE base[k]]

\* config.py:156-197: the variables of .env or of os.environ as a dictionary,
\* the name split at its underscores and the value converted.
LoadEnv(env) ==
    [k \in ConfigKeys |-> ConvertValue(env[ConvertToEnvKey(k)])]

\* config.py:70-102: the dictionary as the variables of .env, each value as
\* its str.
FlattenDict(d) ==
    [n \in EnvNames |->
        d[CHOOSE k \in ConfigKeys : ConvertToEnvKey(k) = n]]

\* config.py:217-224: the three sources merged by priority.
Merged(override, json, env_file, env_vars) ==
    IF override
    THEN MergeConfigs(MergeConfigs(env_file, env_vars), json)
    ELSE MergeConfigs(MergeConfigs(json, env_file), env_vars)

NoCall == [op |-> "none", key |-> "", value |-> Missing, result |-> Missing]

\* No call of the configuration is made: it stays as it was constructed
\* from an empty config.json, an empty .env and an empty environment.
ConfigIdle ==
    /\ _config = EmptyDict
    /\ _json_config = EmptyDict
    /\ _env_file_config = EmptyDict
    /\ _env_vars_config = EmptyDict
    /\ config_override = FALSE
    /\ config_json = EmptyDict
    /\ dot_env = EmptyEnv
    /\ environ = EmptyEnv
    /\ written = EmptyDict
    /\ call = NoCall

Init == LiveInit /\ FilesIdle /\ ConfigIdle

FileInit ==
    /\ LiveInit
    /\ load.viewers = Sessions
    /\ platform \in {"posix", "windows"}
    /\ now = 0
    /\ dir = [f \in Names |-> NoFile]
    /\ req = NoRequest
    /\ resp = NoResponse
    /\ quiet = TRUE
    /\ gone = FALSE
    /\ ConfigIdle

\* ------------------------------------------- the writer of the log files
\* A change of the directory at the next tick of its clock, at any time
\* but the instant a response is returned.  It is seen by the request in
\* progress; taking away the file the request names is remembered.
Change(f, file, takes) ==
    /\ now < MaxTime
    /\ req.pc # "done"
    /\ now' = now + 1
    /\ dir' = [dir EXCEPT ![f] = file]
    /\ quiet' = FALSE
    /\ gone' = (gone \/ (InFlight /\ req.op = "content" /\ req.filename = takes))
    /\ UNCHANGED <<cfgVars, liveVars, platform, req, resp>>

\* A file is created, empty.
Touch(f) ==
    /\ ~IsZip(f)
    /\ ~dir[f].present
    /\ Change(f, [present |-> TRUE, lines |-> <<>>, created |-> now + 1,
                  changed |-> now + 1], "")

\* A line is written at the end of the log file.
Write(f, line) ==
    /\ IsLog(f)
    /\ dir[f].present
    /\ Len(dir[f].lines) < MaxLines
    /\ Change(f, [dir[f] EXCEPT !.lines = Append(@, line),
                                !.changed = now + 1], "")

\* logger.py:37, 43 rotation with compression="zip": the log file is
\* replaced by its archive.
Compress ==
    /\ dir["app.log"].present
    /\ ~dir["old.log.zip"].present
    /\ now < MaxTime
    /\ req.pc # "done"
    /\ now' = now + 1
    /\ dir' = [dir EXCEPT !["app.log"] = NoFile,
                          !["old.log.zip"] =
                              [present |-> TRUE, lines |-> dir["app.log"].lines,
                               created |-> now + 1, changed |-> now + 1]]
    /\ quiet' = FALSE
    /\ gone' = (gone \/ (InFlight /\ req.op = "content"
                           /\ req.filename = "app.log"))
    /\ UNCHANGED <<cfgVars, liveVars, platform, req, resp>>

\* logger.py:38 retention, or anyone else: a file is removed.
Remove(f) ==
    /\ dir[f].present
    /\ Change(f, NoFile, f)

\* ------------------------------------------------------ get_log_files
\* logger.py:134, 136: the names the two globs yield.
Glob == {f \in Names : dir[f].present /\ IsSegment(f)}

\* logger.py:135, 137: stat() of a name that is gone raises
\* FileNotFoundError.
StatRaises == \E f \in req.names : ~dir[f].present

\* logger.py:134-140 after the globs.
get_log_files == SortedDesc(req.names, [f \in req.names |-> StCtime(f)])

Respond(r) ==
    /\ resp' = r
    /\ req' = [req EXCEPT !.pc = "done"]

\* The same, for a response that depends on the page asked for.
RespondPage(r, page, page_size) ==
    /\ resp' = r
    /\ req' = [req EXCEPT !.pc = "done", !.page = page,
                          !.page_size = page_size]

\* --------------------------------------------------- get_log_content
\* logs.py:73-87: the request arrives and get_log_files lists the directory.
\* The page and the page size, which the code first uses at line 104, are
\* drawn there.
ContentCall(f) ==
    /\ AllSuspended
    /\ req.pc = "idle"
    /\ req' = [NoRequest EXCEPT !.op = "content", !.pc = "stat",
                                !.filename = f, !.names = Glob]
    /\ resp' = NoResponse
    /\ quiet' = TRUE
    /\ gone' = FALSE
    /\ UNCHANGED <<cfgVars, liveVars, platform, now, dir>>

\* logs.py:87-89, 134-138: get_log_files stats the names; an exception
\* becomes a 500, no file a 404.
ContentStat ==
    /\ req.op = "content" /\ req.pc = "stat"
    /\ IF StatRaises
       THEN Respond([op |-> "content", status |-> 500])
       ELSE IF req.names = {}
       THEN Respond([op |-> "content", status |-> 404])
       ELSE /\ req' = [req EXCEPT !.pc = "exists", !.log_files = get_log_files]
            /\ UNCHANGED resp
    /\ UNCHANGED <<cfgVars, liveVars, platform, now, dir, quiet, gone>>

\* logs.py:91-96: os.path.exists of the name in the log directory.
ContentExists ==
    /\ req.op = "content" /\ req.pc = "exists"
    /\ IF ~Present(req.filename)
       THEN Respond([op |-> "content", status |-> 404])
       ELSE /\ req' = [req EXCEPT !.pc = "open"]
            /\ UNCHANGED resp
    /\ UNCHANGED <<cfgVars, liveVars, platform, now, dir, quiet, gone>>

\* logs.py:99-138: the file is opened and read as text, and the page is
\* returned; any exception becomes a 500.
ContentRead(page, page_size) ==
    /\ req.op = "content" /\ req.pc = "open"
    /\ IF ~Present(req.filename)
       THEN RespondPage([op |-> "content", status |-> 500], page, page_size)
       ELSE \E all_logs \in ReadLines(req.filename) :
               IF all_logs = "UnicodeDecodeError"
               THEN RespondPage([op |-> "content", status |-> 500],
                                page, page_size)
               ELSE RespondPage(Paginate(all_logs, page, page_size),
                                page, page_size)
    /\ UNCHANGED <<cfgVars, liveVars, platform, now, dir, quiet, gone>>

\* ------------------------------------------------ get_log_files_list
\* logs.py:63-65: the request arrives and get_log_files lists the directory.
ListCall ==
    /\ AllSuspended
    /\ req.pc = "idle"
    /\ req' = [NoRequest EXCEPT !.op = "files", !.pc = "stat", !.names = Glob]
    /\ resp' = NoResponse
    /\ quiet' = TRUE
    /\ gone' = FALSE
    /\ UNCHANGED <<cfgVars, liveVars, platform, now, dir>>

\* logs.py:65: get_log_files stats the names; an exception leaves the
\* handler and becomes a 500.
ListStat ==
    /\ req.op = "files" /\ req.pc = "stat"
    /\ IF StatRaises
       THEN Respond([op |-> "files", status |-> 500])
       ELSE /\ req' = [req EXCEPT !.pc = "size", !.log_files = get_log_files]
            /\ UNCHANGED resp
    /\ UNCHANGED <<cfgVars, liveVars, platform, now, dir, quiet, gone>>

\* logs.py:66-70: the entry of each file of q whose size is above zero.
RECURSIVE Listed(_)
Listed(q) ==
    IF q = <<>> THEN <<>>
    ELSE (IF StSize(Head(q).name) > 0
          THEN <<[filename |-> Head(q).name,
                  ctime |-> FormatTime(Head(q).ctime),
                  size |-> format_file_size(StSize(Head(q).name))]>>
          ELSE <<>>) \o Listed(Tail(q))

\* logs.py:66-70: the files are stat'ed again for their size; a file that
\* is gone raises FileNotFoundError, which leaves the handler.
ListSizes ==
    /\ req.op = "files" /\ req.pc = "size"
    /\ IF \E i \in 1..Len(req.log_files) : ~dir[req.log_files[i].name].present
       THEN Respond([op |-> "files", status |-> 500])
       ELSE Respond([op |-> "files", status |-> 200,
                     files |-> Listed(req.log_files)])
    /\ UNCHANGED <<cfgVars, liveVars, platform, now, dir, quiet, gone>>

\* The response has been returned.
Return ==
    /\ req.pc = "done"
    /\ req' = NoRequest
    /\ resp' = NoResponse
    /\ quiet' = TRUE
    /\ gone' = FALSE
    /\ UNCHANGED <<cfgVars, liveVars, platform, now, dir>>

FileNext ==
    \/ \E f \in Names : Touch(f)
    \/ \E f \in Names : \E line \in LineValues : Write(f, line)
    \/ Compress
    \/ \E f \in Names : Remove(f)
    \/ \E f \in Names : ContentCall(f)
    \/ ContentStat
    \/ ContentExists
    \/ \E page \in 1..MaxPage : \E page_size \in 1..MaxPageSize :
          ContentRead(page, page_size)
    \/ ListCall
    \/ ListStat
    \/ ListSizes
    \/ Return

\* The requests on the log directory, with its writer at work.
FileSpec == FileInit /\ [][FileNext]_vars

\* ----------------------------------------------------- specification
Next ==
    \/ Emit
    \/ \E p \in Tasks : BroadcastStep(p)
    \/ \E s \in Sessions : Connect(s)
    \/ \E s \in Sessions : HandlerStep(s)
    \/ \E s \in Sessions : Cancel(s)
    \/ \E s \in Sessions : PeerDisconnect(s)

\* A viewer that stops reading only keeps steps from being taken: it adds no
\* reachable state, and is left to the specification of progress below.
Spec == Init /\ [][Next]_vars

NextSlow ==
    \/ Next
    \/ \E s \in Sessions : PeerStall(s)

\* Progress: the event loop runs every ready task; the viewers (what they
\* send, when they leave) and the cancellation of a handler are under no
\* obligation.
SlowSpec ==
    /\ Init /\ [][NextSlow]_vars
    /\ \A p \in Tasks : WF_vars(BroadcastStep(p))
    /\ \A s \in Sessions : WF_vars(HandlerRun(s))

\* One viewer and the records published to it, with requests for pages of
\* a log directory at rest that holds a log file of one line: the handlers
\* of both run on the one event loop.
MixedInit ==
    /\ LiveInit
    /\ load.viewers = {1}
    /\ platform = "posix"
    /\ now = 1
    /\ dir = [f \in Names |->
                IF IsLog(f)
                THEN [present |-> TRUE, lines |-> <<" text \n">>,
                      created |-> 1, changed |-> 1]
                ELSE NoFile]
    /\ req = NoRequest
    /\ resp = NoResponse
    /\ quiet = TRUE
    /\ gone = FALSE
    /\ ConfigIdle

MixedNext ==
    \/ Next
    \/ \E f \in Names : ContentCall(f)
    \/ ContentStat
    \/ ContentExists
    \/ \E page \in 1..MaxPage : \E page_size \in 1..MaxPageSize :
          ContentRead(page, page_size)
    \/ Return

MixedSpec == MixedInit /\ [][MixedNext]_vars

\* ------------------------------------------- the configuration manager
\* config.py:19-24, 252: the manager as constructed at import, from the
\* config.json, the .env and the environment of the host.
ConfigInit ==
    /\ LiveInit
    /\ load.viewers = Sessions
    /\ FilesIdle
    /\ config_override \in BOOLEAN
    /\ config_json \in [ConfigKeys -> {Missing, AppId}]
    /\ dot_env = EmptyEnv
    /\ environ \in {EmptyEnv, [EmptyEnv EXCEPT !["APP_NAME"] = "1"]}
    /\ _json_config = config_json
    /\ _env_file_config = LoadEnv(dot_env)
    /\ _env_vars_config = LoadEnv(environ)
    /\ _config = Merged(config_override, config_json,
                        LoadEnv(dot_env), LoadEnv(environ))
    /\ written = EmptyDict
    /\ call = NoCall

\* config.py:128-154: what set(key, value, save) does to the manager, to the
\* files and to the environment.  It assigns nothing to _config.
SetTo(key, value, save) ==
    LET nested_config == CreateNestedDict(key, value)
        json  == MergeConfigs(_json_config, nested_config)
        efile == MergeConfigs(_env_file_config, nested_config)
    IN  /\ _json_config' = json
        /\ config_json' = IF save THEN json ELSE config_json
        /\ IF config_override
           THEN UNCHANGED <<_env_vars_config, _env_file_config, environ,
                            dot_env>>
           ELSE /\ environ' = [environ EXCEPT
                                 ![ConvertToEnvKey(key)] = value]
                /\ _env_vars_config' =
                      MergeConfigs(_env_vars_config, nested_config)
                /\ _env_file_config' = efile
                /\ dot_env' = IF save THEN FlattenDict(efile) ELSE dot_env
        /\ written' = [written EXCEPT ![key] = value]
        /\ UNCHANGED <<_config, config_override>>

\* config.py:231-241: what get(key, default) returns.
GetFrom(key, default) ==
    IF _config[key] = Missing THEN default ELSE _config[key]

\* config.py:119-154.
set(key, value, save) ==
    /\ SetTo(key, value, save)
    /\ call' = [op |-> "set", key |-> key, value |-> value,
                result |-> Missing]
    /\ UNCHANGED <<liveVars, fileVars>>

\* config.py:226-241, with the default None.
get(key) ==
    /\ call' = [op |-> "get", key |-> key, value |-> Missing,
                result |-> GetFrom(key, Missing)]
    /\ UNCHANGED <<liveVars, fileVars, _config, _json_config,
                   _env_file_config, _env_vars_config, config_override,
                   config_json, dot_env, environ, written>>

\* config.py:247-249, 209-224.
reload ==
    /\ _json_config' = config_json
    /\ _env_file_config' = LoadEnv(dot_env)
    /\ _env_vars_config' = LoadEnv(environ)
    /\ _config' = Merged(config_override, config_json,
                         LoadEnv(dot_env), LoadEnv(environ))
    /\ written' = EmptyDict
    /\ call' = [NoCall EXCEPT !.op = "reload"]
    /\ UNCHANGED <<liveVars, fileVars, config_override, config_json,
                   dot_env, environ>>

\* init.py:27-29: the application starts and stores its id.
lifespan ==
    /\ SetTo("app.id", AppId, TRUE)
    /\ call' = [op |-> "lifespan", key |-> "app.id", value |-> AppId,
                result |-> Missing]
    /\ UNCHANGED <<liveVars, fileVars>>

\* init.py:114-129: the root endpoint reads the id, "" when there is none.
root ==
    /\ call' = [op |-> "root", key |-> "app.id", value |-> "",
                result |-> GetFrom("app.id", "")]
    /\ UNCHANGED <<liveVars, fileVars, _config, _json_config,
                   _env_file_config, _env_vars_config, config_override,
                   config_json, dot_env, environ, written>>

ConfigNext ==
    \/ \E key \in ConfigKeys : \E value \in ConfigValues :
          \E save \in BOOLEAN : set(key, value, save)
    \/ \E key \in ConfigKeys : get(key)
    \/ reload
    \/ lifespan
    \/ root

\* The calls of the configuration, in any order.
ConfigSpec == ConfigInit /\ [][ConfigNext]_vars

TypeOK ==
    /\ \A d \in {_config, _json_config, _env_file_config, _env_vars_config,
                  config_json, written} :
          d \in [ConfigKeys -> ConfigValues \cup {"True", Missing}]
    /\ \A e \in {dot_env, environ} :
          e \in [EnvNames -> ConfigValues \cup {"True", Missing}]
    /\ config_override \in BOOLEAN
    /\ call.op \in {"none", "set", "get", "reload", "lifespan", "root"}
    /\ log_queue \in Seq(Tasks)
    /\ active_connections \in Seq(Sessions)
    /\ emitted \in 0..load.lines
    /\ started \in 0..emitted
    /\ \A p \in Tasks :
         bpc[p] \in {"none", "ready", "send", "close", "done", "raised"}
    /\ \A s \in Sessions :
         hpc[s] \in AwaitPoints \cup Terminated \cup {"idle", "registered"}
    /\ \A s \in Sessions :
         /\ inbox[s] \in Seq({"heartbeat", "other"})
         /\ Len(inbox[s]) <= load.texts
         /\ echoed[s] \in 0..Len(inbox[s])
    /\ platform \in {"posix", "windows"}
    /\ now \in 0..MaxTime
    /\ \A f \in Names :
         /\ Len(dir[f].lines) <= MaxLines
         /\ dir[f].created <= dir[f].changed
         /\ dir[f].changed <= now
    /\ req.op \in {"none", "content", "files"}
    /\ req.pc \in {"idle", "stat", "exists", "open", "size", "done"}
    /\ resp.status \in {0, 200, 404, 500}

\* ------------------------------------------------------------- claims
\* The records a session was sent by the replay, and live, in order.
RECURSIVE OfKind(_, _)
OfKind(q, kind) ==
    IF q = <<>> THEN <<>>
    ELSE IF Head(q)[1] = kind THEN <<Head(q)[2]>> \o OfKind(Tail(q), kind)
    ELSE OfKind(Tail(q), kind)

Replayed(s) == OfKind(sent[s], "replay")

Live(s) == OfKind(sent[s], "live")

\* C1: after any sequence of publishes the ring buffer holds at most
\* QueueMaxLen records, and they are the most recently pushed records
\* (records are numbered in the order they are pushed), oldest first: all of
\* them while no more than QueueMaxLen were pushed, the last QueueMaxLen after.
C1_RingHoldsLatest ==
    LET n == Min(QueueMaxLen, started) IN
    /\ Len(log_queue) <= QueueMaxLen
    /\ log_queue = [i \in 1..n |-> started - n + i]

\* C1 witness: more records were pushed than the ring holds.
C1_Overflowed ==
    /\ started > QueueMaxLen
    /\ Len(log_queue) = QueueMaxLen
    /\ Head(log_queue) = started - QueueMaxLen + 1

\* The session is registered and its connection is up.  Connections never
\* come back, so such a session has been connected since it registered.
StillConnected(s) ==
    /\ s \in Range(active_connections)
    /\ client_state[s] = "CONNECTED"
    /\ link[s] = "up"
    /\ hpc[s] \notin Terminated

\* The publish of record p is over, normally or by an exception.
Over(p) == bpc[p] \in {"done", "raised"}

\* C2: a session that was in the registry when a publish started, and has
\* stayed connected, has been sent the record once that publish is over.
C2_RegisteredReceivesAll ==
    \A p \in Tasks : \A s \in Sessions :
        (Over(p) /\ s \in Range(snap[p]) /\ StillConnected(s))
            => p \in Range(Live(s))

\* C3: every session is sent its live records in the order they were
\* published (the order of their numbers).
C3_LiveInPublishOrder ==
    \A s \in Sessions : \A i, j \in 1..Len(Live(s)) :
        i < j => Live(s)[i] < Live(s)[j]

\* C4: broadcast_log never leaves by an exception.
C4_PublishNeverRaises ==
    \A p \in Tasks : bpc[p] # "raised"

\* C5: when a publish is over, its loop has reached every session of its
\* copy of the registry that is still connected, whatever failed before it.
C5_FailureDoesNotAbort ==
    \A p \in Tasks : \A i \in 1..Len(snap[p]) :
        (Over(p) /\ StillConnected(snap[p][i])) => i < bidx[p]

\* C6: a replay that no send failure and no cancellation ended has not
\* failed, and has delivered the ring contents of its beginning, oldest first.
C6_ReplayIsolated ==
    \A s \in Sessions :
        /\ rp[s] # "mutated"
        /\ rp[s] = "complete" => Replayed(s) = replay0[s]

C8_TerminatedNotRegistered ==
    \A s \in Sessions :
        hpc[s] \in Terminated => s \notin Range(active_connections)

\* C9: removing a session that is not in the registry raises nothing and
\* leaves the registry as it is, in broadcast_log (line 190) and in the
\* handler (lines 162-163, 166-167).
C9_UnregisterIdempotent ==
    [][/\ \A p \in Tasks :
            (/\ bpc[p] = "close"
             /\ bpc'[p] # "close"
             /\ snap[p][bidx[p]] \notin Range(active_connections))
                => (bpc'[p] # "raised"
                    /\ active_connections' = active_connections)
       /\ \A s \in Sessions :
            (/\ hpc[s] \notin Terminated
             /\ hpc'[s] = "closed"
             /\ s \notin Range(active_connections))
                => active_connections' = active_connections]_vars

\* C10: no send stays pending for ever, and a session of a publish's copy of
\* the registry that stays connected is eventually sent the record.
C10_SlowConsumerShed ==
    /\ \A p \in Tasks : \A i \in 1..Cardinality(Sessions) :
          (bpc[p] = "send" /\ bidx[p] = i)
              ~> ~(bpc[p] = "send" /\ bidx[p] = i)
    /\ \A p \in Tasks : \A s \in Sessions :
          (bpc[p] = "send" /\ s \in Range(snap[p]))
              ~> (p \in Range(Live(s)) \/ ~StillConnected(s))

\* A send to the session has failed: the replay was left by the break of
\* line 153, or a publish is in its except clause for it (lines 185-190).
SendFailed(s) ==
    \/ rp[s] = "broken"
    \/ \E p \in Tasks :
          bpc[p] = "close" /\ snap[p][bidx[p]] = s

\* C11: a session to which a send failed, during the replay or during a
\* publish, is eventually closed and out of the registry.
C11_SendFailureCloses ==
    \A s \in Sessions :
        SendFailed(s) ~> (s \notin Range(active_connections))

\* The registry without the session c, in order.
RECURSIVE Without(_, _)
Without(q, c) ==
    IF q = <<>> THEN <<>>
    ELSE IF Head(q) = c THEN Without(Tail(q), c)
    ELSE <<Head(q)>> \o Without(Tail(q), c)

\* C12: the step in which a publish finishes handling a failed send to a
\* session c (close, then removal, lines 185-190) takes c out of the registry
\* and leaves every other session as it was: its place in the registry, its
\* client_state, its connection and its handler.
C12_FailureIsolated ==
    [][\A p \in Tasks :
         (bpc[p] = "close" /\ bpc'[p] # "close") =>
            LET c == snap[p][bidx[p]] IN
            /\ c \notin Range(active_connections')
            /\ Without(active_connections', c) = Without(active_connections, c)
            /\ \A s \in Sessions \ {c} :
                  /\ client_state'[s] = client_state[s]
                  /\ link'[s] = link[s]
                  /\ hpc'[s] = hpc[s]]_vars

\* C12 witness: a publish removed a session whose handler is still running,
\* and went on to send its record to another session that is still
\* registered and connected.
C12_OtherSurvives ==
    \E p \in Tasks : \E c, s \in Sessions :
        /\ c # s
        /\ c \in Range(snap[p])
        /\ c \notin Range(active_connections)
        /\ hpc[c] \notin Terminated
        /\ StillConnected(s)
        /\ p \in Range(Live(s))
        /\ bpc[p] = "done"

\* C13: a handler that waits for a message of its peer does not wait for
\* ever: a keep-alive arrives, or the wait is ended and the session closed,
\* whether or not the peer disconnects.
C13_SilentSessionClosed ==
    \A s \in Sessions :
        (s \in Range(active_connections) /\ hpc[s] = "receive")
            ~> (hpc[s] # "receive")

\* C14: a step in which the handler takes a text of its peer hands exactly
\* one "heartbeat" to the session's channel when the text is the sentinel,
\* and nothing when it is not; a text other than the sentinel leaves the
\* handler waiting for the next one and the session registered and
\* connected.  Nothing else sends a "heartbeat".
C14_KeepAliveEcho ==
    [][\A s \in Sessions :
         /\ inbox'[s] # inbox[s] =>
              /\ sent'[s] = sent[s]
              /\ IF inbox'[s][Len(inbox'[s])] = "heartbeat"
                 THEN echoed'[s] = echoed[s] + 1
                 ELSE /\ echoed'[s] = echoed[s]
                      /\ hpc'[s] = "receive"
                      /\ client_state'[s] = client_state[s]
                      /\ active_connections' = active_connections
         /\ echoed'[s] # echoed[s] =>
              inbox'[s] = Append(inbox[s], "heartbeat")]_vars

\* C14 witness: a session answered a sentinel, then took another text, and
\* is still registered and connected.
C14_EchoedThenOther ==
    \E s \in Sessions :
        /\ inbox[s] = <<"heartbeat", "other">>
        /\ echoed[s] = 1
        /\ hpc[s] = "receive"
        /\ StillConnected(s)

\* The number of times x occurs in q.
RECURSIVE Count(_, _)
Count(q, x) ==
    IF q = <<>> THEN 0
    ELSE (IF Head(q) = x THEN 1 ELSE 0) + Count(Tail(q), x)

\* The record p was published during the replay of session s: after the
\* replay began and before it was left.
InReplayWindow(s, p) ==
    /\ rp[s] # "none"
    /\ itstate[s] < p
    /\ p <= (IF rp[s] = "running" THEN started ELSE replayEnd[s])

\* C15: a session is sent a record at most once by the replay and at most
\* once live, and both only when the record was published during the
\* session's replay.
C15_DuplicateOnlyInWindow ==
    \A s \in Sessions : \A p \in Tasks :
        /\ Count(Replayed(s), p) <= 1
        /\ Count(Live(s), p) <= 1
        /\ (Count(Replayed(s), p) + Count(Live(s), p) > 1)
              => InReplayWindow(s, p)

\* C15 witness: a session was sent a record published before its replay by
\* the replay, and a record published during its replay live.
C15_PublishedInWindowDelivered ==
    \E s \in Sessions : \E p, r \in Tasks :
        /\ InReplayWindow(s, p)
        /\ Count(Live(s), p) = 1
        /\ ~InReplayWindow(s, r)
        /\ Count(Replayed(s), r) = 1

\* The request op has been answered.
Done(op) == req.op = op /\ req.pc = "done"

\* The file the request names is a segment of the log directory.
NamedSegment == Present(req.filename) /\ IsSegment(req.filename)

\* C16: a request for a page of a segment of n >= 1 lines, in a directory
\* that does not change meanwhile, succeeds with total_pages the ceiling of
\* n / page_size and current_page the smaller of page and total_pages.
C16_PageClamped ==
    (Done("content") /\ quiet /\ NamedSegment
        /\ Len(dir[req.filename].lines) >= 1) =>
        LET n  == Len(dir[req.filename].lines)
            tp == (n + req.page_size - 1) \div req.page_size
        IN  /\ resp.status = 200
            /\ resp.total_pages = tp
            /\ resp.current_page = Min(req.page, tp)

\* C17: a request for a page of a file that was taken away during the call
\* is answered with 404.
C17_VanishedIsNotFound ==
    (Done("content") /\ gone) => resp.status = 404

\* C18: in a directory that does not change meanwhile, a request for a page
\* is answered with 404 exactly when the directory holds no segment or the
\* name is not that of a segment in it.
C18_NotFoundExactly ==
    (Done("content") /\ quiet) =>
        (resp.status = 404 <=> (Glob = {} \/ ~NamedSegment))

\* C19: a request for a page of an archive, in a directory that does not
\* change meanwhile, is answered as for a plain file with the same lines.
C19_CompressedTransparent ==
    (Done("content") /\ quiet /\ Present(req.filename)
        /\ IsZip(req.filename)) =>
        resp = Paginate(dir[req.filename].lines, req.page, req.page_size)

\* The segments of size above zero, newest first by creation, each with its
\* creation time and its size.
RECURSIVE Entries(_)
Entries(q) ==
    IF q = <<>> THEN <<>>
    ELSE <<[filename |-> Head(q).name,
            ctime |-> FormatTime(Head(q).ctime),
            size |-> format_file_size(StSize(Head(q).name))]>>
         \o Entries(Tail(q))

SegmentsByCreation ==
    LET S == {f \in Glob : StSize(f) > 0} IN
    Entries(SortedDesc(S, [f \in S |-> dir[f].created]))

\* C20: in a directory that does not change meanwhile, the list of files is
\* exactly the segments of size above zero, each with its creation time and
\* its size, newest first by creation time.
C20_ListingExact ==
    (Done("files") /\ quiet) =>
        /\ resp.status = 200
        /\ resp.files = SegmentsByCreation

\* C21: a request for a page of a segment of size zero, in a directory that
\* does not change meanwhile, succeeds with no line and a total of zero,
\* whatever the page and the page size.
C21_EmptySegmentReads ==
    (Done("content") /\ quiet /\ NamedSegment /\ StSize(req.filename) = 0) =>
        /\ resp.status = 200
        /\ resp.logs = <<>>
        /\ resp.total = 0

\* C21 witness: a page beyond the first of a segment of size zero was asked
\* for and answered.
C21_EmptySegmentAsked ==
    /\ Done("content") /\ quiet /\ NamedSegment
    /\ StSize(req.filename) = 0
    /\ req.page > 1
    /\ req.page_size > 1
    /\ resp.status = 200

\* The broadcast task p has a step to take as soon as the event loop runs it.
Ready(p) ==
    \/ bpc[p] = "ready" /\ p = started + 1
    \/ bpc[p] = "close"
    \/ /\ bpc[p] = "send"
       /\ LET c == snap[p][bidx[p]] IN
             link[c] = "down" \/ ~stalled[c]

\* C22: while a request for a page is being handled, a broadcast task that
\* is ready can take its step.
C22_ReadDoesNotBlock ==
    \A p \in Tasks :
        (InFlight /\ req.op = "content" /\ Ready(p))
            => ENABLED BroadcastStep(p)

\* The lines of the named file that make the page the response is about:
\* those of the clamped page, in file order.
PageLines ==
    LET lines == dir[req.filename].lines
        n     == Len(lines)
        tp    == (n + req.page_size - 1) \div req.page_size
        p     == IF req.page > tp THEN (IF tp < 1 THEN 1 ELSE tp) ELSE req.page
        first == (p - 1) * req.page_size
        last  == Min(p * req.page_size, n)
    IN  [i \in 1..(last - first) |-> lines[first + i]]

\* What a line is to become: its canonical JSON text when it is JSON, the
\* line without the white space around it when it is not.
Canonical(line) ==
    IF line = "{\"a\":1}\n" THEN "{\"a\": 1}"
    ELSE IF line = " text \n" THEN "text"
    ELSE "[[[[...]]]]"

\* C23: a request for a page of a plain log file, in a directory that does
\* not change meanwhile, succeeds whatever the lines are, with one output
\* line for each line of the page: its canonical JSON text, or the line
\* trimmed.
C23_LinesNeverFail ==
    (Done("content") /\ quiet /\ NamedSegment /\ IsLog(req.filename)) =>
        /\ resp.status = 200
        /\ Len(resp.logs) = Len(PageLines)
        /\ \A i \in 1..Len(PageLines) : resp.logs[i] = Canonical(PageLines[i])

\* C24: in a directory that does not change meanwhile, page p of a segment
\* of n lines, for p from 1 to the ceiling of n / page_size, is answered
\* with exactly the lines of 0-based indices (p - 1) * page_size up to
\* Min(p * page_size, n) - 1 in file order, at least one and at most
\* page_size of them, and with a total of n.
C24_PagesPartition ==
    LET n  == Len(dir[req.filename].lines)
        ps == req.page_size
        p  == req.page
    IN  (Done("content") /\ quiet /\ NamedSegment
            /\ p \in 1..((n + ps - 1) \div ps)) =>
            /\ resp.status = 200
            /\ resp.total = n
            /\ Len(resp.logs) = Min(p * ps, n) - (p - 1) * ps
            /\ Len(resp.logs) \in 1..ps
            /\ \A i \in 1..Len(resp.logs) :
                  resp.logs[i] =
                      Canonical(dir[req.filename].lines[(p - 1) * ps + i])

\* No publish has started since the replay of session s began.
NoPublishDuringReplay(s) ==
    /\ rp[s] # "none"
    /\ (IF rp[s] = "running" THEN started ELSE replayEnd[s]) = itstate[s]

\* The min(QueueMaxLen, n) most recent of the first n records, oldest first.
Latest(n) ==
    LET m == Min(QueueMaxLen, n) IN [i \in 1..m |-> n - m + i]

\* C25: a record whose delivery has been attempted is one that was appended
\* to the ring buffer; and a session during whose replay no publish started
\* is sent the ring contents of the replay's beginning, which are the
\* min(QueueMaxLen, number published) most recent records, oldest first
\* (all of them once the replay is complete), before any live record and
\* before any keep-alive is taken or answered.
C25_BacklogReplay ==
    /\ \A p \in Tasks :
          (bpc[p] \in {"send", "close", "done", "raised"}
              \/ \E s \in Sessions : p \in Range(Live(s)) \cup Range(Replayed(s)))
              => p <= started
    /\ \A s \in Sessions :
          NoPublishDuringReplay(s) =>
              LET n == Len(Replayed(s)) IN
              /\ replay0[s] = Latest(itstate[s])
              /\ n <= Len(replay0[s])
              /\ Replayed(s) = SubSeq(replay0[s], 1, n)
              /\ rp[s] = "complete" => Replayed(s) = replay0[s]
              /\ \A i \in 1..n : sent[s][i][1] = "replay"
              /\ rp[s] = "running" =>
                    Live(s) = <<>> /\ inbox[s] = <<>> /\ echoed[s] = 0

\* C25 witness: a session was sent a full ring buffer by a replay during
\* which no publish started, then a live record, and answered a keep-alive.
C25_ReplayThenLive ==
    \E s \in Sessions :
        /\ NoPublishDuringReplay(s)
        /\ rp[s] = "complete"
        /\ Len(Replayed(s)) = QueueMaxLen
        /\ Live(s) # <<>>
        /\ echoed[s] > 0

\* C26: a session is in the registry at most once, and only after its
\* accept() returned; it enters the registry in the step that follows its
\* accept() and in no other, and a handler runs that step once, so a session
\* that was removed does not come back; a publish's copy of the registry
\* holds a session at most once and the publish sends it at most one record.
C26_RegistryWellFormed ==
    /\ [](\A s \in Sessions :
            /\ Count(active_connections, s) <= 1
            /\ s \in Range(active_connections) =>
                  /\ client_state[s] # "CONNECTING"
                  /\ hpc[s] \notin {"idle", "accept"}
            /\ \A p \in Tasks :
                  /\ Count(snap[p], s) <= 1
                  /\ Count(Live(s), p) <= 1)
    /\ [][\A s \in Sessions :
            /\ (s \notin Range(active_connections)
                   /\ s \in Range(active_connections'))
                  => (hpc[s] = "accept" /\ hpc'[s] = "registered")
            /\ hpc'[s] = "idle" => hpc[s] = "idle"
            /\ hpc'[s] = "accept" => hpc[s] \in {"idle", "accept"}]_vars

\* C26 witness: a publish removed a session whose handler still waits for
\* its peer, and a later publish, now over, did not find it in the registry.
C26_RemovedStaysOut ==
    \E s \in Sessions : \E p, r \in Tasks :
        /\ p < r
        /\ s \in Range(snap[p])
        /\ s \notin Range(snap[r])
        /\ s \notin Range(active_connections)
        /\ hpc[s] = "receive"
        /\ bpc[r] = "done"

\* C27: a read of a key, by get or by the root endpoint, that follows a set
\* of that key (by set or by lifespan, in either mode, saved or not) with no
\* reload in between returns the value that was set.
C27_ReadYourWrites ==
    (call.op \in {"get", "root"} /\ written[call.key] # Missing) =>
        call.result = written[call.key]

====
